---------------------------- MODULE Spec2Model ----------------------------
(***************************************************************************)
(* Transaction validation and account-state engine of the payments engine. *)
(*                                                                         *)
(* Amounts.  The engine stores f32 amounts rounded to 4 fractional digits. *)
(* The model counts a stored amount in units of 0.0001 (an integer) and an *)
(* input amount in units of 0.00001, so that round_currency has a digit to *)
(* round away.  Representation error of f32 is outside the model.          *)
(*                                                                         *)
(* Hash maps are functions whose DOMAIN is the set of keys present.        *)
(*                                                                         *)
(* handlers.rs calls the log and the dispute store with the tx_id only;    *)
(* state.rs and validate.rs key both by (client_id, tx_id).  The model     *)
(* passes the client_id of the handled event, and reads undispute_tx as    *)
(* DisputesState::settle_dispute.                                          *)
(***************************************************************************)
EXTENDS Integers, FiniteSets, Sequences, TLC

(* ------------------------------ bounds --------------------------------- *)

MaxClient == 2

MaxTx == 2

MaxAmount == 2

\* longest input handed to run_test_scenario
MaxInput == 3

\* longest input handed to process_transactions
MaxPipelineInput == 2

\* the generator is followed until it has yielded this many records
MaxYield == 4

\* max_attempts of the generator
MaxAttempts == 2

\* longest input of the pipeline followed with its reader thread: what the
\* channel of a handler thread holds, one record the main thread is sending
\* and one waiting behind it in the channel of batches
MaxReaderInput == 12

Clients == 1..MaxClient

TxIds == 1..MaxTx

\* input amounts in units of 0.00001: two negative (-0.0001 and the tie
\* -0.00005), two that round to 0 and to 0.0001 (0.00004, 0.00005), and whole
\* multiples of 0.0001
RawAmounts == {-10, -5, 4, 5} \cup {10 * k : k \in 1..MaxAmount}

(* ------------------------------ helpers -------------------------------- *)

EmptyMap == [x \in {} |-> x]

Put(f, k, v) == [x \in (DOMAIN f) \cup {k} |-> IF x = k THEN v ELSE f[x]]

None == [some |-> FALSE]

Some(v) == [some |-> TRUE, val |-> v]

Ok == [ok |-> TRUE]

OkVal(v) == [ok |-> TRUE, val |-> v]

Err(e) == [ok |-> FALSE, err |-> e]

(* ------------------------------ currency ------------------------------- *)

\* mutant: floor_currency in place of round_currency
round_currency_floors(amount) == amount \div 10

\* f32::round rounds half away from zero
round_currency(amount) ==
    IF amount >= 0 THEN (amount + 5) \div 10 ELSE -((5 - amount) \div 10)

(* ------------------------------- types --------------------------------- *)

TransactionType == {"Deposit", "Withdrawal", "Dispute", "Resolve", "Chargeback"}

TransactionRecord(t, c, tx, a) ==
    [transaction_type |-> t, client_id |-> c, tx_id |-> tx, amount |-> a]

DefaultAccount == [available |-> 0, held |-> 0, locked |-> FALSE]

Deposit(c, tx, a) == [client_id |-> c, tx_id |-> tx, amount |-> a]

Withdrawal(c, tx, a) == [client_id |-> c, tx_id |-> tx, amount |-> a]

TransactionContainer(kind, res) == [kind |-> kind, result |-> res]

InsufficientFunds(c, tx, req, avail) ==
    [error |-> "InsufficientFunds", client |-> c, tx |-> tx,
     requested |-> req, available |-> avail]

AccountLocked(c, tx) == [error |-> "AccountLocked", client |-> c, tx |-> tx]

DuplicateTxId(tx) == [error |-> "DuplicateTxId", tx |-> tx]

AmountNotPositive(tx, a) == [error |-> "AmountNotPositive", tx |-> tx, amount |-> a]

TxAlreadyDisputed(c, tx) == [error |-> "TxAlreadyDisputed", client |-> c, tx |-> tx]

TxDoesNotExist(c, tx) == [error |-> "TxDoesNotExist", client |-> c, tx |-> tx]

InvalidDispute(tx, t) == [error |-> "InvalidDispute", tx |-> tx, tx_type |-> t]

TxNotDisputed(c, tx) == [error |-> "TxNotDisputed", client |-> c, tx |-> tx]

DisputedTxFailed(tx) == [error |-> "DisputedTxFailed", tx |-> tx]

DisputeAlreadySettled(c, tx) ==
    [error |-> "DisputeAlreadySettled", client |-> c, tx |-> tx]

ClientMismatch(tx, txc, dc) ==
    [error |-> "ClientMismatch", tx |-> tx, tx_client |-> txc, dispute_client |-> dc]

ImproperTransaction(r) == [error |-> "ImproperTransaction", record |-> r]

UnexpectedError(tx) == [error |-> "UnexpectedError", tx |-> tx]

\* mutant: every logged transaction is disputable
try_get_disputable_any(container) == OkVal(container.result)

\* Ok(result) for a Deposit container, Err(tx_type) for any other
try_get_disputable(container) ==
    IF container.kind = "Deposit" THEN OkVal(container.result)
    ELSE Err(container.kind)

(* ------------------------------- account ------------------------------- *)

\* mutant: the deposit replaces the balance instead of adding to it
modify_balances_for_deposit_sets(account, deposit) ==
    [account EXCEPT !.available = deposit.amount]

modify_balances_for_deposit(account, deposit) ==
    [account EXCEPT !.available = @ + deposit.amount]

modify_balances_for_withdrawal(account, withdrawal) ==
    [account EXCEPT !.available = @ - withdrawal.amount]

lock(account) == [account EXCEPT !.locked = TRUE]

\* mutant: the disputed amount leaves available and is not held
modify_balances_for_dispute_no_hold(account, disputed_tx) ==
    [account EXCEPT !.available = @ - disputed_tx.amount]

modify_balances_for_dispute(account, disputed_tx) ==
    [account EXCEPT !.available = @ - disputed_tx.amount,
                    !.held = @ + disputed_tx.amount]

\* mutant: the resolve releases held as a chargeback does
modify_balances_for_resolve_as_chargeback(account, disputed_tx) ==
    [account EXCEPT !.held = @ - disputed_tx.amount]

modify_balances_for_resolve(account, disputed_tx) ==
    [account EXCEPT !.available = @ + disputed_tx.amount,
                    !.held = @ - disputed_tx.amount]

modify_balances_for_chargeback(account, disputed_tx) ==
    [account EXCEPT !.held = @ - disputed_tx.amount]

(* -------------------------------- state -------------------------------- *)

\* AccountsState::get_mut is "client_id \in DOMAIN accts" and accts[client_id]
get_mut_or_default(accts, client_id) ==
    IF client_id \in DOMAIN accts THEN accts ELSE Put(accts, client_id, DefaultAccount)

tx_exists(txs, tx_id) == tx_id \in txs.tx_ids

transactions_get(txs, client_id, tx_id) ==
    IF client_id \in DOMAIN txs.by_client /\ tx_id \in DOMAIN txs.by_client[client_id]
    THEN Some(txs.by_client[client_id][tx_id])
    ELSE None

\* mutant: HashMap::insert in place of entry().or_insert()
insert_overwrites(txs, client_id, tx_id, transaction) ==
    LET by1 == IF client_id \in DOMAIN txs.by_client THEN txs.by_client
               ELSE Put(txs.by_client, client_id, EmptyMap)
    IN  [by_client |-> Put(by1, client_id, Put(by1[client_id], tx_id, transaction)),
         tx_ids |-> txs.tx_ids \cup {tx_id}]

\* mutant: the tx_id is not added to the global set
insert_forgets_tx_id(txs, client_id, tx_id, transaction) ==
    LET by1 == IF client_id \in DOMAIN txs.by_client THEN txs.by_client
               ELSE Put(txs.by_client, client_id, EmptyMap)
        client_txs == by1[client_id]
    IN  [by_client |-> Put(by1, client_id,
                           IF tx_id \in DOMAIN client_txs THEN client_txs
                           ELSE Put(client_txs, tx_id, transaction)),
         tx_ids |-> txs.tx_ids]

insert(txs, client_id, tx_id, transaction) ==
    LET by1 == IF client_id \in DOMAIN txs.by_client THEN txs.by_client
               ELSE Put(txs.by_client, client_id, EmptyMap)
        client_txs == by1[client_id]
    IN  [by_client |-> Put(by1, client_id,
                           IF tx_id \in DOMAIN client_txs THEN client_txs
                           ELSE Put(client_txs, tx_id, transaction)),
         tx_ids |-> txs.tx_ids \cup {tx_id}]

is_disputed(disp, client_id, tx_id) ==
    client_id \in DOMAIN disp.active /\ tx_id \in disp.active[client_id]

is_settled(disp, client_id, tx_id) ==
    client_id \in DOMAIN disp.settled /\ tx_id \in disp.settled[client_id]

\* mutant: the tx_id is marked for every client
dispute_tx_every_client(disp, client_id, tx_id) ==
    [disp EXCEPT !.active =
        [c \in (DOMAIN disp.active) \cup Clients |->
            (IF c \in DOMAIN disp.active THEN disp.active[c] ELSE {}) \cup {tx_id}]]

dispute_tx(disp, client_id, tx_id) ==
    LET client_disputes == IF client_id \in DOMAIN disp.active
                           THEN disp.active[client_id] ELSE {}
    IN  [disp EXCEPT !.active = Put(disp.active, client_id, client_disputes \cup {tx_id})]

\* mutant: the tx_id leaves the active set and is not recorded as settled
settle_dispute_forgets(disp, client_id, tx_id) ==
    IF client_id \in DOMAIN disp.active
    THEN [disp EXCEPT !.active = Put(disp.active, client_id,
                                     disp.active[client_id] \ {tx_id})]
    ELSE disp

settle_dispute(disp, client_id, tx_id) ==
    IF client_id \in DOMAIN disp.active
    THEN IF tx_id \in disp.active[client_id]
         THEN LET client_settled == IF client_id \in DOMAIN disp.settled
                                    THEN disp.settled[client_id] ELSE {}
              IN  [active |-> Put(disp.active, client_id, disp.active[client_id] \ {tx_id}),
                   settled |-> Put(disp.settled, client_id, client_settled \cup {tx_id})]
         ELSE disp
    ELSE disp

NewState == [accounts |-> EmptyMap,
             transactions |-> [by_client |-> EmptyMap, tx_ids |-> {}],
             disputes |-> [active |-> EmptyMap, settled |-> EmptyMap]]


(* ------------------------------ validate ------------------------------- *)

\* mutant: a tx_id must also be larger than every tx_id seen before
check_for_duplicate_tx_id_monotonic(tx_id, txs) ==
    IF \E seen \in txs.tx_ids : seen >= tx_id THEN Err(DuplicateTxId(tx_id)) ELSE Ok

check_for_duplicate_tx_id(tx_id, txs) ==
    IF tx_exists(txs, tx_id) THEN Err(DuplicateTxId(tx_id)) ELSE Ok

\* mutant: an amount of zero passes
check_for_positive_amount_allows_zero(tx, amount) ==
    IF amount >= 0 THEN Ok ELSE Err(AmountNotPositive(tx, amount))

check_for_positive_amount(tx, amount) ==
    IF amount > 0 THEN Ok ELSE Err(AmountNotPositive(tx, amount))

\* mutant: a locked account may deposit
validate_deposit_ignores_lock(deposit, accts, txs) ==
    LET dup == check_for_duplicate_tx_id(deposit.tx_id, txs)
        pos == check_for_positive_amount(deposit.tx_id, deposit.amount)
        accts1 == get_mut_or_default(accts, deposit.client_id)
    IN  IF ~dup.ok THEN [res |-> dup, accounts |-> accts]
        ELSE IF ~pos.ok THEN [res |-> pos, accounts |-> accts]
        ELSE [res |-> OkVal(deposit), accounts |-> accts1]

\* Every validator returns [res, accounts]: its result and the accounts map
\* as the call leaves it (get_mut_or_default may have created an account).
validate_deposit(deposit, accts, txs) ==
    LET dup == check_for_duplicate_tx_id(deposit.tx_id, txs)
        pos == check_for_positive_amount(deposit.tx_id, deposit.amount)
        accts1 == get_mut_or_default(accts, deposit.client_id)
    IN  IF ~dup.ok THEN [res |-> dup, accounts |-> accts]
        ELSE IF ~pos.ok THEN [res |-> pos, accounts |-> accts]
        ELSE IF ~accts1[deposit.client_id].locked
             THEN [res |-> OkVal(deposit), accounts |-> accts1]
             ELSE [res |-> Err(AccountLocked(deposit.client_id, deposit.tx_id)),
                   accounts |-> accts1]

\* mutant: the account is looked up with get_mut_or_default, as for a deposit
validate_withdrawal_creates(withdrawal, accts, txs) ==
    LET dup == check_for_duplicate_tx_id(withdrawal.tx_id, txs)
        pos == check_for_positive_amount(withdrawal.tx_id, withdrawal.amount)
        c == withdrawal.client_id
        accts1 == get_mut_or_default(accts, c)
    IN  IF ~dup.ok THEN [res |-> dup, accounts |-> accts]
        ELSE IF ~pos.ok THEN [res |-> pos, accounts |-> accts]
        ELSE IF ~accts1[c].locked
             THEN IF accts1[c].available >= withdrawal.amount
                  THEN [res |-> OkVal(withdrawal), accounts |-> accts1]
                  ELSE [res |-> Err(InsufficientFunds(c, withdrawal.tx_id,
                                        withdrawal.amount, accts1[c].available)),
                        accounts |-> accts1]
             ELSE [res |-> Err(AccountLocked(c, withdrawal.tx_id)), accounts |-> accts1]

\* mutant: the amount is not compared with available
validate_withdrawal_no_funds_check(withdrawal, accts, txs) ==
    LET dup == check_for_duplicate_tx_id(withdrawal.tx_id, txs)
        pos == check_for_positive_amount(withdrawal.tx_id, withdrawal.amount)
        c == withdrawal.client_id
    IN  IF ~dup.ok THEN [res |-> dup, accounts |-> accts]
        ELSE IF ~pos.ok THEN [res |-> pos, accounts |-> accts]
        ELSE IF c \in DOMAIN accts
             THEN IF ~accts[c].locked
                  THEN [res |-> OkVal(withdrawal), accounts |-> accts]
                  ELSE [res |-> Err(AccountLocked(c, withdrawal.tx_id)),
                        accounts |-> accts]
             ELSE [res |-> Err(InsufficientFunds(c, withdrawal.tx_id,
                                                 withdrawal.amount, 0)),
                   accounts |-> accts]

\* mutant: available must exceed the amount
validate_withdrawal_strict(withdrawal, accts, txs) ==
    LET dup == check_for_duplicate_tx_id(withdrawal.tx_id, txs)
        pos == check_for_positive_amount(withdrawal.tx_id, withdrawal.amount)
        c == withdrawal.client_id
    IN  IF ~dup.ok THEN [res |-> dup, accounts |-> accts]
        ELSE IF ~pos.ok THEN [res |-> pos, accounts |-> accts]
        ELSE IF c \in DOMAIN accts
             THEN IF ~accts[c].locked
                  THEN IF accts[c].available > withdrawal.amount
                       THEN [res |-> OkVal(withdrawal), accounts |-> accts]
                       ELSE [res |-> Err(InsufficientFunds(c, withdrawal.tx_id,
                                             withdrawal.amount, accts[c].available)),
                             accounts |-> accts]
                  ELSE [res |-> Err(AccountLocked(c, withdrawal.tx_id)),
                        accounts |-> accts]
             ELSE [res |-> Err(InsufficientFunds(c, withdrawal.tx_id,
                                                 withdrawal.amount, 0)),
                   accounts |-> accts]

validate_withdrawal(withdrawal, accts, txs) ==
    LET dup == check_for_duplicate_tx_id(withdrawal.tx_id, txs)
        pos == check_for_positive_amount(withdrawal.tx_id, withdrawal.amount)
        c == withdrawal.client_id
    IN  IF ~dup.ok THEN [res |-> dup, accounts |-> accts]
        ELSE IF ~pos.ok THEN [res |-> pos, accounts |-> accts]
        ELSE IF c \in DOMAIN accts
             THEN IF ~accts[c].locked
                  THEN IF accts[c].available >= withdrawal.amount
                       THEN [res |-> OkVal(withdrawal), accounts |-> accts]
                       ELSE [res |-> Err(InsufficientFunds(c, withdrawal.tx_id,
                                             withdrawal.amount, accts[c].available)),
                             accounts |-> accts]
                  ELSE [res |-> Err(AccountLocked(c, withdrawal.tx_id)),
                        accounts |-> accts]
             ELSE [res |-> Err(InsufficientFunds(c, withdrawal.tx_id,
                                                 withdrawal.amount, 0)),
                   accounts |-> accts]

\* mutant: CHECK 5 is missing, a settled transaction can be disputed again
validate_dispute_for_successful_tx_skips_settled(dispute, disputed_tx, accts, disp) ==
    LET tx_id == dispute.tx_id
        client_id == dispute.client_id
    IN  IF client_id # disputed_tx.client_id
        THEN Err(ClientMismatch(tx_id, disputed_tx.client_id, client_id))
        ELSE IF is_disputed(disp, client_id, tx_id)
        THEN Err(TxAlreadyDisputed(client_id, tx_id))
        ELSE IF client_id \in DOMAIN accts
        THEN OkVal(disputed_tx)
        ELSE Err(UnexpectedError(tx_id))

\* mutant: CHECK 4 is missing, an actively disputed transaction can be
\* disputed again
validate_dispute_for_successful_tx_skips_active(dispute, disputed_tx, accts, disp) ==
    LET tx_id == dispute.tx_id
        client_id == dispute.client_id
    IN  IF client_id # disputed_tx.client_id
        THEN Err(ClientMismatch(tx_id, disputed_tx.client_id, client_id))
        ELSE IF is_settled(disp, client_id, tx_id)
        THEN Err(DisputeAlreadySettled(client_id, tx_id))
        ELSE IF client_id \in DOMAIN accts
        THEN OkVal(disputed_tx)
        ELSE Err(UnexpectedError(tx_id))

validate_dispute_for_successful_tx(dispute, disputed_tx, accts, disp) ==
    LET tx_id == dispute.tx_id
        client_id == dispute.client_id
    IN  IF client_id # disputed_tx.client_id
        THEN Err(ClientMismatch(tx_id, disputed_tx.client_id, client_id))
        ELSE IF is_disputed(disp, client_id, tx_id)
        THEN Err(TxAlreadyDisputed(client_id, tx_id))
        ELSE IF is_settled(disp, client_id, tx_id)
        THEN Err(DisputeAlreadySettled(client_id, tx_id))
        ELSE IF client_id \in DOMAIN accts
        THEN OkVal(disputed_tx)
        ELSE Err(UnexpectedError(tx_id))

\* mutant: a failed deposit is reported as a transaction that does not exist
validate_dispute_failed_as_missing(dispute, accts, txs, disp) ==
    LET found == transactions_get(txs, dispute.client_id, dispute.tx_id)
    IN  IF found.some
        THEN LET d == try_get_disputable(found.val)
             IN  IF d.ok
                 THEN IF d.val.ok
                      THEN validate_dispute_for_successful_tx(dispute, d.val.val, accts, disp)
                      ELSE Err(TxDoesNotExist(dispute.client_id, dispute.tx_id))
                 ELSE Err(InvalidDispute(dispute.tx_id, d.err))
        ELSE Err(TxDoesNotExist(dispute.client_id, dispute.tx_id))

validate_dispute(dispute, accts, txs, disp) ==
    LET found == transactions_get(txs, dispute.client_id, dispute.tx_id)
    IN  IF found.some
        THEN LET d == try_get_disputable(found.val)
             IN  IF d.ok
                 THEN IF d.val.ok
                      THEN validate_dispute_for_successful_tx(dispute, d.val.val, accts, disp)
                      ELSE Err(DisputedTxFailed(dispute.tx_id))
                 ELSE Err(InvalidDispute(dispute.tx_id, d.err))
        ELSE Err(TxDoesNotExist(dispute.client_id, dispute.tx_id))

\* mutant: a locked account may not settle its disputes
validate_post_dispute_for_existing_tx_checks_lock(post, disputed_tx, accts, disp) ==
    LET tx_id == post.tx_id
        client_id == post.client_id
    IN  IF client_id # disputed_tx.client_id
        THEN Err(ClientMismatch(tx_id, disputed_tx.client_id, client_id))
        ELSE IF ~is_disputed(disp, client_id, tx_id)
        THEN Err(TxNotDisputed(client_id, tx_id))
        ELSE IF client_id \in DOMAIN accts
        THEN IF accts[client_id].locked
             THEN Err(AccountLocked(client_id, tx_id))
             ELSE OkVal(disputed_tx)
        ELSE Err(UnexpectedError(tx_id))

validate_post_dispute_for_existing_tx(post, disputed_tx, accts, disp) ==
    LET tx_id == post.tx_id
        client_id == post.client_id
    IN  IF client_id # disputed_tx.client_id
        THEN Err(ClientMismatch(tx_id, disputed_tx.client_id, client_id))
        ELSE IF ~is_disputed(disp, client_id, tx_id)
        THEN Err(TxNotDisputed(client_id, tx_id))
        ELSE IF client_id \in DOMAIN accts
        THEN OkVal(disputed_tx)
        ELSE Err(UnexpectedError(tx_id))

\* mutant: a transaction missing from the log is reported as not disputed
validate_post_dispute_missing_not_disputed(post, accts, txs, disp) ==
    LET found == transactions_get(txs, post.client_id, post.tx_id)
    IN  IF found.some
        THEN LET d == try_get_disputable(found.val)
             IN  IF d.ok /\ d.val.ok
                 THEN validate_post_dispute_for_existing_tx(post, d.val.val, accts, disp)
                 ELSE Err(UnexpectedError(post.tx_id))
        ELSE Err(TxNotDisputed(post.client_id, post.tx_id))

validate_post_dispute(post, accts, txs, disp) ==
    LET found == transactions_get(txs, post.client_id, post.tx_id)
    IN  IF found.some
        THEN LET d == try_get_disputable(found.val)
             IN  IF d.ok /\ d.val.ok
                 THEN validate_post_dispute_for_existing_tx(post, d.val.val, accts, disp)
                 ELSE Err(UnexpectedError(post.tx_id))
        ELSE Err(TxDoesNotExist(post.client_id, post.tx_id))

(* ------------------------------ handlers ------------------------------- *)

\* mutant: a rejected deposit is not logged
handle_deposit_drops_failure(deposit, state) ==
    LET c == deposit.client_id
        v == validate_deposit(deposit, state.accounts, state.transactions)
    IN  IF v.res.ok
        THEN [state |->
                [accounts |-> Put(v.accounts, c,
                                  modify_balances_for_deposit(v.accounts[c], v.res.val)),
                 transactions |-> insert(state.transactions, c, deposit.tx_id,
                                         TransactionContainer("Deposit", OkVal(v.res.val))),
                 disputes |-> state.disputes],
              result |-> Ok]
        ELSE [state |-> [state EXCEPT !.accounts = v.accounts], result |-> v.res]

\* Every handler returns [state, result]: the State it leaves and what it
\* returns to the caller.
handle_deposit(deposit, state) ==
    LET c == deposit.client_id
        v == validate_deposit(deposit, state.accounts, state.transactions)
    IN  IF v.res.ok
        THEN [state |->
                [accounts |-> Put(v.accounts, c,
                                  modify_balances_for_deposit(v.accounts[c], v.res.val)),
                 transactions |-> insert(state.transactions, c, deposit.tx_id,
                                         TransactionContainer("Deposit", OkVal(v.res.val))),
                 disputes |-> state.disputes],
              result |-> Ok]
        ELSE [state |->
                [accounts |-> v.accounts,
                 transactions |-> insert(state.transactions, c, deposit.tx_id,
                                         TransactionContainer("Deposit", v.res)),
                 disputes |-> state.disputes],
              result |-> v.res]

handle_withdrawal(withdrawal, state) ==
    LET c == withdrawal.client_id
        v == validate_withdrawal(withdrawal, state.accounts, state.transactions)
    IN  IF v.res.ok
        THEN [state |->
                [accounts |-> Put(v.accounts, c,
                                  modify_balances_for_withdrawal(v.accounts[c], v.res.val)),
                 transactions |-> insert(state.transactions, c, withdrawal.tx_id,
                                         TransactionContainer("Withdrawal", OkVal(v.res.val))),
                 disputes |-> state.disputes],
              result |-> Ok]
        ELSE [state |->
                [accounts |-> v.accounts,
                 transactions |-> insert(state.transactions, c, withdrawal.tx_id,
                                         TransactionContainer("Withdrawal", v.res)),
                 disputes |-> state.disputes],
              result |-> v.res]

\* mutant: an accepted dispute locks the account
handle_dispute_locks(dispute, state) ==
    LET c == dispute.client_id
        v == validate_dispute(dispute, state.accounts, state.transactions, state.disputes)
    IN  IF v.ok
        THEN [state |->
                [accounts |-> Put(state.accounts, c,
                                  lock(modify_balances_for_dispute(state.accounts[c], v.val))),
                 transactions |-> state.transactions,
                 disputes |-> dispute_tx(state.disputes, c, dispute.tx_id)],
              result |-> Ok]
        ELSE [state |-> state, result |-> v]

handle_dispute(dispute, state) ==
    LET c == dispute.client_id
        v == validate_dispute(dispute, state.accounts, state.transactions, state.disputes)
    IN  IF v.ok
        THEN [state |->
                [accounts |-> Put(state.accounts, c,
                                  modify_balances_for_dispute(state.accounts[c], v.val)),
                 transactions |-> state.transactions,
                 disputes |-> dispute_tx(state.disputes, c, dispute.tx_id)],
              result |-> Ok]
        ELSE [state |-> state, result |-> v]

handle_resolve(resolve, state) ==
    LET c == resolve.client_id
        v == validate_post_dispute(resolve, state.accounts, state.transactions,
                                   state.disputes)
    IN  IF v.ok
        THEN [state |->
                [accounts |-> Put(state.accounts, c,
                                  modify_balances_for_resolve(state.accounts[c], v.val)),
                 transactions |-> state.transactions,
                 disputes |-> settle_dispute(state.disputes, c, resolve.tx_id)],
              result |-> Ok]
        ELSE [state |-> state, result |-> v]

\* mutant: the account is not locked
handle_chargeback_no_lock(chargeback, state) ==
    LET c == chargeback.client_id
        v == validate_post_dispute(chargeback, state.accounts, state.transactions,
                                   state.disputes)
    IN  IF v.ok
        THEN [state |->
                [accounts |-> Put(state.accounts, c,
                                  modify_balances_for_chargeback(state.accounts[c], v.val)),
                 transactions |-> state.transactions,
                 disputes |-> settle_dispute(state.disputes, c, chargeback.tx_id)],
              result |-> Ok]
        ELSE [state |-> state, result |-> v]

handle_chargeback(chargeback, state) ==
    LET c == chargeback.client_id
        v == validate_post_dispute(chargeback, state.accounts, state.transactions,
                                   state.disputes)
        charged == modify_balances_for_chargeback(state.accounts[c], v.val)
    IN  IF v.ok
        THEN [state |->
                [accounts |-> Put(state.accounts, c,
                                  IF ~charged.locked THEN lock(charged) ELSE charged),
                 transactions |-> state.transactions,
                 disputes |-> settle_dispute(state.disputes, c, chargeback.tx_id)],
              result |-> Ok]
        ELSE [state |-> state, result |-> v]

\* mutant: the catch-all arm records the tx_id of the improper record
handle_transaction_improper_consumes(record, state) ==
    LET t == record.transaction_type
        client_id == record.client_id
        tx_id == record.tx_id
    IN  IF t = "Deposit" /\ record.amount.some
        THEN handle_deposit(Deposit(client_id, tx_id, round_currency(record.amount.val)),
                            state)
        ELSE IF t = "Withdrawal" /\ record.amount.some
        THEN handle_withdrawal(Withdrawal(client_id, tx_id,
                                          round_currency(record.amount.val)), state)
        ELSE IF t = "Dispute" /\ ~record.amount.some
        THEN handle_dispute([client_id |-> client_id, tx_id |-> tx_id], state)
        ELSE IF t = "Resolve" /\ ~record.amount.some
        THEN handle_resolve([client_id |-> client_id, tx_id |-> tx_id], state)
        ELSE IF t = "Chargeback" /\ ~record.amount.some
        THEN handle_chargeback([client_id |-> client_id, tx_id |-> tx_id], state)
        ELSE [state |-> [state EXCEPT !.transactions.tx_ids = @ \cup {tx_id}],
              result |-> Err(ImproperTransaction(record))]

handle_transaction(record, state) ==
    LET t == record.transaction_type
        client_id == record.client_id
        tx_id == record.tx_id
    IN  IF t = "Deposit" /\ record.amount.some
        THEN handle_deposit(Deposit(client_id, tx_id, round_currency(record.amount.val)),
                            state)
        ELSE IF t = "Withdrawal" /\ record.amount.some
        THEN handle_withdrawal(Withdrawal(client_id, tx_id,
                                          round_currency(record.amount.val)), state)
        ELSE IF t = "Dispute" /\ ~record.amount.some
        THEN handle_dispute([client_id |-> client_id, tx_id |-> tx_id], state)
        ELSE IF t = "Resolve" /\ ~record.amount.some
        THEN handle_resolve([client_id |-> client_id, tx_id |-> tx_id], state)
        ELSE IF t = "Chargeback" /\ ~record.amount.some
        THEN handle_chargeback([client_id |-> client_id, tx_id |-> tx_id], state)
        ELSE [state |-> state, result |-> Err(ImproperTransaction(record))]

(* ---------------------------- state machine ---------------------------- *)

\* The fields of State.  The caller of handle_transaction keeps nothing else
\* between two calls (run_test_scenario only collects the errors).
VARIABLES accounts, transactions, disputes

\* What a caller that feeds a whole input to the engine keeps: the input
\* records, how many of them it has taken, and the errors it collected
\* (run_test_scenario); and what process_transactions keeps besides: the
\* channel to each handler thread, the handler threads whose function has
\* returned, and the balances written to the output stream.
VARIABLES records, handled, actual_errors, channels, exited, output

\* The reader thread of process_transactions (where it is, how many input
\* rows it has read, its batch size, whether the headers can be read), the
\* channel of the headers, the channel of the batches, and the main thread
\* (where it is and what is left of the batch it is sending).
VARIABLES reader, headers_chan, records_chan, main_thread

\* The TransactionGenerator of rand.rs besides its State: tx_id, num_tx, where
\* a call of next is (the attempts made so far), and the panic it ended with
\* if any.  The records it yields are collected in records.
VARIABLES generator

readervars == <<reader, headers_chan, records_chan, main_thread>>

callervars == <<records, handled, actual_errors, channels, exited, output,
                reader, headers_chan, records_chan, main_thread, generator>>

vars == <<accounts, transactions, disputes, records, handled, actual_errors,
          channels, exited, output, reader, headers_chan, records_chan,
          main_thread, generator>>

State == [accounts |-> accounts, transactions |-> transactions, disputes |-> disputes]

\* number of handler threads
NumThreads == 4

\* buffer of the channel to a handler thread
ChannelCap == 10

Threads == 0..(NumThreads - 1)

\* no reader thread and no channels of headers and batches
NoReader ==
    /\ reader = None
    /\ headers_chan = <<>>
    /\ records_chan = <<>>
    /\ main_thread = None

\* no generator
NoGenerator == generator = None

\* no input, nothing sent, nothing written
NoCaller ==
    /\ records = <<>>
    /\ handled = 0
    /\ actual_errors = <<>>
    /\ channels = [w \in Threads |-> <<>>]
    /\ exited = {}
    /\ output = None
    /\ NoReader
    /\ NoGenerator

\* handle_transaction called on a new State, record by record, by a caller
\* that keeps nothing
Init ==
    /\ accounts = NewState.accounts
    /\ transactions = NewState.transactions
    /\ disputes = NewState.disputes
    /\ NoCaller

\* the records a caller can pass, by shape
DepositRecords ==
    {TransactionRecord("Deposit", c, tx, Some(a)) :
        c \in Clients, tx \in TxIds, a \in RawAmounts}

WithdrawalRecords ==
    {TransactionRecord("Withdrawal", c, tx, Some(a)) :
        c \in Clients, tx \in TxIds, a \in RawAmounts}

DisputeRecords == {TransactionRecord("Dispute", c, tx, None) : c \in Clients, tx \in TxIds}

ResolveRecords == {TransactionRecord("Resolve", c, tx, None) : c \in Clients, tx \in TxIds}

ChargebackRecords ==
    {TransactionRecord("Chargeback", c, tx, None) : c \in Clients, tx \in TxIds}

\* kind and amount presence do not match
ImproperRecords ==
    {TransactionRecord(t, c, tx, None) :
        t \in {"Deposit", "Withdrawal"}, c \in Clients, tx \in TxIds}
    \cup
    {TransactionRecord(t, c, tx, Some(a)) :
        t \in {"Dispute", "Resolve", "Chargeback"}, c \in Clients, tx \in TxIds,
        a \in RawAmounts}

Records ==
    DepositRecords \cup WithdrawalRecords \cup DisputeRecords \cup ResolveRecords
    \cup ChargebackRecords \cup ImproperRecords

\* the State one call handle_transaction(r, &mut state) leaves
After(r) == handle_transaction(r, State).state

\* what that call returns
Returned(r) == handle_transaction(r, State).result

HandleDeposit ==
    \E r \in DepositRecords :
        /\ accounts' = After(r).accounts
        /\ transactions' = After(r).transactions
        /\ disputes' = After(r).disputes
        /\ UNCHANGED callervars

HandleWithdrawal ==
    \E r \in WithdrawalRecords :
        /\ accounts' = After(r).accounts
        /\ transactions' = After(r).transactions
        /\ disputes' = After(r).disputes
        /\ UNCHANGED callervars

HandleDispute ==
    \E r \in DisputeRecords :
        /\ accounts' = After(r).accounts
        /\ transactions' = After(r).transactions
        /\ disputes' = After(r).disputes
        /\ UNCHANGED callervars

HandleResolve ==
    \E r \in ResolveRecords :
        /\ accounts' = After(r).accounts
        /\ transactions' = After(r).transactions
        /\ disputes' = After(r).disputes
        /\ UNCHANGED callervars

HandleChargeback ==
    \E r \in ChargebackRecords :
        /\ accounts' = After(r).accounts
        /\ transactions' = After(r).transactions
        /\ disputes' = After(r).disputes
        /\ UNCHANGED callervars

HandleImproper ==
    \E r \in ImproperRecords :
        /\ accounts' = After(r).accounts
        /\ transactions' = After(r).transactions
        /\ disputes' = After(r).disputes
        /\ UNCHANGED callervars

Next ==
    \/ HandleDeposit
    \/ HandleWithdrawal
    \/ HandleDispute
    \/ HandleResolve
    \/ HandleChargeback
    \/ HandleImproper

Spec == Init /\ [][Next]_vars

(* --------------------- a whole input, record by record ----------------- *)

\* the records the inputs are made of: deposits of 0.0001 and of -0.0001,
\* withdrawals of 0.0001, every Dispute, Resolve and Chargeback, and deposits
\* without an amount
InputRecords ==
    {TransactionRecord("Deposit", c, tx, Some(a)) :
        c \in Clients, tx \in TxIds, a \in {-10, 10}}
    \cup {TransactionRecord("Withdrawal", c, tx, Some(10)) : c \in Clients, tx \in TxIds}
    \cup DisputeRecords \cup ResolveRecords \cup ChargebackRecords
    \cup {TransactionRecord("Deposit", c, tx, None) : c \in Clients, tx \in TxIds}

Inputs(n) == UNION {[1..k -> InputRecords] : k \in 0..n}

\* run_test_scenario as a function of its arguments: the State and the
\* errors its loop ends with
RECURSIVE run_test_scenario(_, _)
run_test_scenario(initial_state, txs) ==
    IF txs = <<>>
    THEN [state |-> initial_state, actual_errors |-> <<>>]
    ELSE LET h == handle_transaction(Head(txs), initial_state)
             rest == run_test_scenario(h.state, Tail(txs))
         IN  [state |-> rest.state,
              actual_errors |-> IF h.result.ok THEN rest.actual_errors
                                ELSE <<h.result.err>> \o rest.actual_errors]

ScenarioInit ==
    /\ accounts = NewState.accounts
    /\ transactions = NewState.transactions
    /\ disputes = NewState.disputes
    /\ records \in Inputs(MaxInput)
    /\ handled = 0
    /\ actual_errors = <<>>
    /\ channels = [w \in Threads |-> <<>>]
    /\ exited = {}
    /\ output = None
    /\ NoReader
    /\ NoGenerator

\* mutant: the loop ends at the first error
ScenarioStep_stops_at_error ==
    /\ handled < Len(records)
    /\ actual_errors = <<>>
    /\ LET h == handle_transaction(records[handled + 1], State)
       IN  /\ accounts' = h.state.accounts
           /\ transactions' = h.state.transactions
           /\ disputes' = h.state.disputes
           /\ actual_errors' = IF h.result.ok THEN actual_errors
                               ELSE Append(actual_errors, h.result.err)
    /\ handled' = handled + 1
    /\ UNCHANGED <<records, channels, exited, output, readervars, generator>>

\* one turn of the loop of run_test_scenario
ScenarioStep ==
    /\ handled < Len(records)
    /\ LET h == handle_transaction(records[handled + 1], State)
       IN  /\ accounts' = h.state.accounts
           /\ transactions' = h.state.transactions
           /\ disputes' = h.state.disputes
           /\ actual_errors' = IF h.result.ok THEN actual_errors
                               ELSE Append(actual_errors, h.result.err)
    /\ handled' = handled + 1
    /\ UNCHANGED <<records, channels, exited, output, readervars, generator>>

\* the loop is sequential code that runs to its end: a record that remains is
\* eventually taken
ScenarioSpec == ScenarioInit /\ [][ScenarioStep]_vars /\ WF_vars(ScenarioStep)

(* ------------------------- the partitioned pipeline -------------------- *)

\* process_transactions as lib.rs states it.  The reader thread and the
\* deserialization of a batch hand the records over in input order (the
\* channel of batches is FIFO, collect() of the parallel iterator keeps the
\* order), so the input is the sequence of deserialized records.

assign_tx_to_thread(tx, num_threads) == tx.client_id % num_threads

PipelineInit ==
    /\ accounts = NewState.accounts
    /\ transactions = NewState.transactions
    /\ disputes = NewState.disputes
    /\ records \in Inputs(MaxPipelineInput)
    /\ handled = 0
    /\ actual_errors = <<>>
    /\ channels = [w \in Threads |-> <<>>]
    /\ exited = {}
    /\ output = None
    /\ NoReader
    /\ NoGenerator

\* the main thread sends the next record to the thread of its client; send
\* waits while the buffer is full and fails, the record being lost, once the
\* receiver is dropped
SendToHandlerThread ==
    /\ handled < Len(records)
    /\ LET tx == records[handled + 1]
           thread_id == assign_tx_to_thread(tx, NumThreads)
       IN  /\ thread_id \notin exited => Len(channels[thread_id]) < ChannelCap
           /\ channels' = IF thread_id \in exited THEN channels
                          ELSE [channels EXCEPT ![thread_id] = Append(@, tx)]
    /\ handled' = handled + 1
    /\ UNCHANGED <<accounts, transactions, disputes, records, actual_errors,
                   exited, output, readervars, generator>>

\* handle_transactions_on_thread builds rcv.iter().map(..) and drops it: an
\* iterator adapter is lazy, so no record is received and handle_transaction
\* is not called; the function returns and the receiver is dropped with
\* whatever the channel holds
HandleTransactionsOnThread ==
    \E w \in Threads \ exited :
        /\ exited' = exited \cup {w}
        /\ channels' = [channels EXCEPT ![w] = <<>>]
        /\ UNCHANGED <<accounts, transactions, disputes, records, handled,
                       actual_errors, output, readervars, generator>>

\* after the last record is sent the main thread writes the balances,
\* without joining the handler threads
WriteBalances ==
    /\ handled = Len(records)
    /\ output = None
    /\ output' = Some(accounts)
    /\ UNCHANGED <<accounts, transactions, disputes, records, handled,
                   actual_errors, channels, exited, readervars, generator>>

PipelineNext ==
    \/ SendToHandlerThread
    \/ HandleTransactionsOnThread
    \/ WriteBalances

PipelineSpec == PipelineInit /\ [][PipelineNext]_vars


(* ---------------- the pipeline with its reader thread ------------------ *)

\* process_transactions with read_string_records on its own thread.  The
\* input is the sequence of the rows that deserialize; a row that does not is
\* dropped by filter_map before anything is sent.

\* Maximum number of batches to keep in the channel at once
max_batches == 1

\* buffer of the channel of the headers
HeadersCap == 1

\* the batch sizes followed
BatchSizes == {0, 1, 3}

\* the inputs followed: up to MaxReaderInput deposits of one client, which
\* all go to one handler thread, and the inputs of PipelineSpec
ReaderInputs ==
    UNION {[1..k -> {TransactionRecord("Deposit", 1, 1, Some(10))}] :
              k \in 0..MaxReaderInput}
    \cup Inputs(1)

ReaderInit ==
    /\ accounts = NewState.accounts
    /\ transactions = NewState.transactions
    /\ disputes = NewState.disputes
    /\ records \in ReaderInputs
    /\ handled = 0
    /\ actual_errors = <<>>
    /\ channels = [w \in Threads |-> <<>>]
    /\ exited = {}
    /\ output = None
    /\ reader \in [pc : {"headers"}, read : {0}, batch_size : BatchSizes,
                   headers_ok : BOOLEAN]
    /\ headers_chan = <<>>
    /\ records_chan = <<>>
    /\ main_thread = [pc |-> "recv_headers", tx_batch |-> <<>>]
    /\ NoGenerator

\* the reader reads the headers and sends them; if they cannot be read it
\* returns the error, which drops both of its senders
ReadHeaders ==
    /\ reader.pc = "headers"
    /\ reader.headers_ok => Len(headers_chan) < HeadersCap
    /\ headers_chan' = IF reader.headers_ok THEN Append(headers_chan, "headers")
                       ELSE headers_chan
    /\ reader' = [reader EXCEPT !.pc = IF reader.headers_ok THEN "batches"
                                       ELSE "returned"]
    /\ UNCHANGED <<accounts, transactions, disputes, records, handled, actual_errors,
                   channels, exited, output, records_chan, main_thread, generator>>

\* one turn of the reader's loop: the next batch_size rows are sent as a
\* batch, which waits while the channel holds max_batches; an empty batch
\* ends the loop and the reader returns
ReadBatch ==
    /\ reader.pc = "batches"
    /\ LET last == IF reader.read + reader.batch_size <= Len(records)
                   THEN reader.read + reader.batch_size ELSE Len(records)
           batch == SubSeq(records, reader.read + 1, last)
       IN  IF Len(batch) > 0
           THEN /\ Len(records_chan) < max_batches
                /\ records_chan' = Append(records_chan, batch)
                /\ reader' = [reader EXCEPT !.read = last]
           ELSE /\ records_chan' = records_chan
                /\ reader' = [reader EXCEPT !.pc = "returned"]
    /\ UNCHANGED <<accounts, transactions, disputes, records, handled, actual_errors,
                   channels, exited, output, headers_chan, main_thread, generator>>

\* headers_rcv.recv(): the headers, or an error once the reader has returned
\* without sending them
RecvHeaders ==
    /\ main_thread.pc = "recv_headers"
    /\ headers_chan # <<>> \/ reader.pc = "returned"
    /\ headers_chan' = IF headers_chan # <<>> THEN Tail(headers_chan) ELSE headers_chan
    /\ main_thread' = [main_thread EXCEPT !.pc = IF headers_chan # <<>>
                                                 THEN "recv_batch" ELSE "write"]
    /\ UNCHANGED <<accounts, transactions, disputes, records, handled, actual_errors,
                   channels, exited, output, reader, records_chan, generator>>

\* for record_batch in records_rcv: the next batch, or the end of the loop
\* once the reader has returned and the channel is empty
RecvBatch ==
    /\ main_thread.pc = "recv_batch"
    /\ records_chan # <<>> \/ reader.pc = "returned"
    /\ records_chan' = IF records_chan # <<>> THEN Tail(records_chan) ELSE records_chan
    /\ main_thread' = IF records_chan # <<>>
                      THEN [pc |-> "send", tx_batch |-> Head(records_chan)]
                      ELSE [pc |-> "write", tx_batch |-> <<>>]
    /\ UNCHANGED <<accounts, transactions, disputes, records, handled, actual_errors,
                   channels, exited, output, reader, headers_chan, generator>>

\* mutant: the send waits for room in the buffer also after the receiver is
\* dropped
SendBatchRecord_waits_for_dropped ==
    /\ main_thread.pc = "send"
    /\ LET tx == Head(main_thread.tx_batch)
           thread_id == assign_tx_to_thread(tx, NumThreads)
       IN  /\ Len(channels[thread_id]) < ChannelCap
           /\ channels' = [channels EXCEPT ![thread_id] = Append(@, tx)]
    /\ handled' = handled + 1
    /\ main_thread' = IF Len(main_thread.tx_batch) > 1
                      THEN [main_thread EXCEPT !.tx_batch = Tail(@)]
                      ELSE [pc |-> "recv_batch", tx_batch |-> <<>>]
    /\ UNCHANGED <<accounts, transactions, disputes, records, actual_errors,
                   exited, output, reader, headers_chan, records_chan, generator>>

\* the main thread sends the next record of the batch to the thread of its
\* client; send waits while the buffer is full and fails, the record being
\* lost, once the receiver is dropped
SendBatchRecord ==
    /\ main_thread.pc = "send"
    /\ LET tx == Head(main_thread.tx_batch)
           thread_id == assign_tx_to_thread(tx, NumThreads)
       IN  /\ thread_id \notin exited => Len(channels[thread_id]) < ChannelCap
           /\ channels' = IF thread_id \in exited THEN channels
                          ELSE [channels EXCEPT ![thread_id] = Append(@, tx)]
    /\ handled' = handled + 1
    /\ main_thread' = IF Len(main_thread.tx_batch) > 1
                      THEN [main_thread EXCEPT !.tx_batch = Tail(@)]
                      ELSE [pc |-> "recv_batch", tx_batch |-> <<>>]
    /\ UNCHANGED <<accounts, transactions, disputes, records, actual_errors,
                   exited, output, reader, headers_chan, records_chan, generator>>

\* a handler thread returns, as in PipelineSpec
HandlerThreadReturns ==
    \E w \in Threads \ exited :
        /\ exited' = exited \cup {w}
        /\ channels' = [channels EXCEPT ![w] = <<>>]
        /\ UNCHANGED <<accounts, transactions, disputes, records, handled,
                       actual_errors, output, readervars, generator>>

\* write_balances, after the loop or after the headers failed
WriteOutput ==
    /\ main_thread.pc = "write"
    /\ output' = Some(accounts)
    /\ main_thread' = [main_thread EXCEPT !.pc = "join"]
    /\ UNCHANGED <<accounts, transactions, disputes, records, handled, actual_errors,
                   channels, exited, reader, headers_chan, records_chan, generator>>

\* reader_handle.join(), after which process_transactions returns
JoinReader ==
    /\ main_thread.pc = "join"
    /\ reader.pc = "returned"
    /\ main_thread' = [main_thread EXCEPT !.pc = "done"]
    /\ UNCHANGED <<accounts, transactions, disputes, records, handled, actual_errors,
                   channels, exited, output, reader, headers_chan, records_chan,
                   generator>>

ReaderThread == ReadHeaders \/ ReadBatch

MainThread == RecvHeaders \/ RecvBatch \/ SendBatchRecord \/ WriteOutput \/ JoinReader

ReaderNext ==
    \/ ReadHeaders
    \/ ReadBatch
    \/ RecvHeaders
    \/ RecvBatch
    \/ SendBatchRecord
    \/ HandlerThreadReturns
    \/ WriteOutput
    \/ JoinReader

\* every thread that can take a step is scheduled in the end
ReaderSpec ==
    /\ ReaderInit
    /\ [][ReaderNext]_vars
    /\ WF_vars(ReaderThread)
    /\ WF_vars(MainThread)
    /\ WF_vars(HandlerThreadReturns)

(* --------------------- the random transaction generator --------------- *)

\* TransactionGenerator of rand.rs.  Its state field is the State of the
\* model; every random draw (kind, client, amount, the element a HashSet
\* iterator gives first) is a choice among all values it can give.  Amounts
\* of records are in units of 0.00001, balances in units of 0.0001.

\* 0.0001 in the unit of the amounts of records
MIN_AMOUNT == 10

\* floor_currency, from the unit of records to the unit of balances
floor_currency(amount) == amount \div 10

\* the amounts gen_range(MIN_AMOUNT..max) can give, of which the model takes
\* the multiples of 0.00005
gen_range_amounts(max) == {a \in MIN_AMOUNT..(max - 1) : a % 5 = 0}

\* the clients get_client_id can give
get_client_id == Clients

get_tx_ids_by_client(txs, client_id) ==
    IF client_id \in DOMAIN txs.by_client THEN DOMAIN txs.by_client[client_id] ELSE {}

get_disputed_tx_ids_by_client(disp, client_id) ==
    IF client_id \in DOMAIN disp.active THEN disp.active[client_id] ELSE {}

get_settled_tx_ids_by_client(disp, client_id) ==
    IF client_id \in DOMAIN disp.settled THEN disp.settled[client_id] ELSE {}

\* the values get_disputed_tx_id_for_client can return: any element of the
\* set, or None for the empty set
get_disputed_tx_id_for_client(state, client_id) ==
    LET disputed_tx_ids == get_disputed_tx_ids_by_client(state.disputes, client_id)
    IN  IF disputed_tx_ids = {} THEN {None} ELSE {Some(tx) : tx \in disputed_tx_ids}

get_undisputed_tx_id_for_client(state, client_id) ==
    LET undisputed_tx_ids ==
            (get_tx_ids_by_client(state.transactions, client_id)
                \ get_disputed_tx_ids_by_client(state.disputes, client_id))
                \ get_settled_tx_ids_by_client(state.disputes, client_id)
    IN  IF undisputed_tx_ids = {} THEN {None} ELSE {Some(tx) : tx \in undisputed_tx_ids}

is_transaction_disputable(state, client_id, tx_id) ==
    LET tx == transactions_get(state.transactions, client_id, tx_id)
    IN  /\ tx.some
        /\ try_get_disputable(tx.val).ok
        /\ try_get_disputable(tx.val).val.ok

\* mutant: a deposit is generated for a locked account too
generate_deposit_ignores_lock(gen, state) ==
    {IF gen.max_deposit > MIN_AMOUNT
     THEN Some(TransactionRecord("Deposit", c, gen.tx_id, Some(a)))
     ELSE None :
        c \in get_client_id, a \in gen_range_amounts(gen.max_deposit) \cup {MIN_AMOUNT}}

\* Each generate_ function gives the set of values it can return.
generate_deposit(gen, state) ==
    {IF c \in DOMAIN state.accounts /\ state.accounts[c].locked THEN None
     ELSE IF gen.max_deposit > MIN_AMOUNT
     THEN Some(TransactionRecord("Deposit", c, gen.tx_id, Some(a)))
     ELSE None :
        c \in get_client_id, a \in gen_range_amounts(gen.max_deposit) \cup {MIN_AMOUNT}}

\* balances are kept in units of 0.0001, so account.available is
\* 10 * available in the unit of MIN_AMOUNT
generate_withdrawal(gen, state) ==
    UNION {
        IF c \in DOMAIN state.accounts
        THEN LET account == state.accounts[c]
                 max_amount == 10 * floor_currency(10 * account.available)
             IN  IF ~account.locked /\ 10 * account.available > MIN_AMOUNT
                    /\ max_amount > MIN_AMOUNT
                 THEN {Some(TransactionRecord("Withdrawal", c, gen.tx_id, Some(a))) :
                          a \in gen_range_amounts(max_amount)}
                 ELSE {None}
        ELSE {None} :
        c \in get_client_id}

generate_dispute(gen, state) ==
    UNION {
        IF c \in DOMAIN state.accounts
        THEN {IF o.some /\ is_transaction_disputable(state, c, o.val)
              THEN Some(TransactionRecord("Dispute", c, o.val, None))
              ELSE None :
                 o \in get_undisputed_tx_id_for_client(state, c)}
        ELSE {None} :
        c \in get_client_id}

generate_resolve(gen, state) ==
    UNION {
        IF c \in DOMAIN state.accounts
        THEN {IF o.some THEN Some(TransactionRecord("Resolve", c, o.val, None))
              ELSE None :
                 o \in get_disputed_tx_id_for_client(state, c)}
        ELSE {None} :
        c \in get_client_id}

generate_chargeback(gen, state) ==
    UNION {
        IF c \in DOMAIN state.accounts
        THEN {IF o.some THEN Some(TransactionRecord("Chargeback", c, o.val, None))
              ELSE None :
                 o \in get_disputed_tx_id_for_client(state, c)}
        ELSE {None} :
        c \in get_client_id}

generate_potential_transaction(gen, state) ==
    generate_deposit(gen, state) \cup generate_withdrawal(gen, state)
        \cup generate_dispute(gen, state) \cup generate_resolve(gen, state)
        \cup generate_chargeback(gen, state)

\* TransactionGenerator::new, for either a number of transactions below ten,
\* ten of them or no limit, and a max_deposit that allows deposits or none
GeneratorInit ==
    /\ accounts = NewState.accounts
    /\ transactions = NewState.transactions
    /\ disputes = NewState.disputes
    /\ generator \in [tx_id : {1},
                      num_tx : {None} \cup {Some(n) : n \in {1, 9, 10}},
                      max_deposit : {MIN_AMOUNT, 3 * MIN_AMOUNT},
                      max_attempts : {MaxAttempts},
                      attempts : {0},
                      pc : {"idle"},
                      panic : {None}]
    /\ records = <<>>
    /\ handled = 0
    /\ actual_errors = <<>>
    /\ channels = [w \in Threads |-> <<>>]
    /\ exited = {}
    /\ output = None
    /\ NoReader

\* a call of next, up to the loop of attempts: it returns None when num_tx
\* records were yielded, and divides tx_id by a tenth of num_tx, which
\* panics when the tenth is zero
GeneratorNext ==
    /\ generator.pc = "idle"
    /\ Len(records) < MaxYield
    /\ generator' =
          IF generator.num_tx.some
          THEN LET desired == generator.num_tx.val
                   tenth == desired \div 10
               IN  IF generator.tx_id > desired
                   THEN [generator EXCEPT !.pc = "returned_none"]
                   ELSE IF tenth = 0
                   THEN [generator EXCEPT !.pc = "panicked",
                                          !.panic = Some("attempt to divide by zero")]
                   ELSE [generator EXCEPT !.pc = "attempting", !.attempts = 0]
          ELSE [generator EXCEPT !.pc = "attempting", !.attempts = 0]
    /\ UNCHANGED <<accounts, transactions, disputes, records, handled, actual_errors,
                   channels, exited, output, readervars>>

\* one turn of the loop of attempts: a candidate is handled on the
\* generator's State, expect panics if it is rejected, and otherwise it is
\* yielded; without a candidate the loop goes on
GeneratorAttempt ==
    /\ generator.pc = "attempting"
    /\ generator.attempts < generator.max_attempts
    /\ \E o \in generate_potential_transaction(generator, State) :
          IF o.some
          THEN LET h == handle_transaction(o.val, State)
               IN  /\ accounts' = h.state.accounts
                   /\ transactions' = h.state.transactions
                   /\ disputes' = h.state.disputes
                   /\ generator' =
                         IF h.result.ok
                         THEN [generator EXCEPT !.tx_id = @ + 1, !.pc = "idle"]
                         ELSE [generator EXCEPT
                                  !.pc = "panicked",
                                  !.panic = Some("Generated invalid transaction")]
                   /\ records' = IF h.result.ok THEN Append(records, o.val) ELSE records
          ELSE /\ generator' = [generator EXCEPT !.attempts = @ + 1]
               /\ UNCHANGED <<accounts, transactions, disputes, records>>
    /\ UNCHANGED <<handled, actual_errors, channels, exited, output, readervars>>

\* max_attempts attempts gave no candidate: next returns None
GeneratorGiveUp ==
    /\ generator.pc = "attempting"
    /\ generator.attempts = generator.max_attempts
    /\ generator' = [generator EXCEPT !.pc = "returned_none"]
    /\ UNCHANGED <<accounts, transactions, disputes, records, handled, actual_errors,
                   channels, exited, output, readervars>>

GeneratorNextStep ==
    \/ GeneratorNext
    \/ GeneratorAttempt
    \/ GeneratorGiveUp

GeneratorSpec == GeneratorInit /\ [][GeneratorNextStep]_vars

(* ------------------------- vocabulary of the claims -------------------- *)

\* the amount handle_transaction hands to the validators
Amt(r) == round_currency(r.amount.val)

MoneyRecords == DepositRecords \cup WithdrawalRecords

Present(accts, c) == c \in DOMAIN accts

\* the account a client has, a zeroed one standing for "none yet"
AccountOf(accts, c) == IF Present(accts, c) THEN accts[c] ELSE DefaultAccount

Locked(accts, c) == Present(accts, c) /\ accts[c].locked

Status(disp, c, tx) ==
    IF is_disputed(disp, c, tx) THEN "actively-disputed"
    ELSE IF is_settled(disp, c, tx) THEN "settled"
    ELSE "undisputed"

SameStatus(d1, d2) ==
    \A c \in Clients, tx \in TxIds : Status(d1, c, tx) = Status(d2, c, tx)

Logged(txs, c, tx) == transactions_get(txs, c, tx)

LoggedOk(txs, c, tx) == Logged(txs, c, tx).some /\ Logged(txs, c, tx).val.result.ok

LoggedErr(txs, c, tx) == Logged(txs, c, tx).some /\ ~Logged(txs, c, tx).val.result.ok

SameLog(t1, t2) ==
    /\ t1.tx_ids = t2.tx_ids
    /\ \A c \in Clients, tx \in TxIds : Logged(t1, c, tx) = Logged(t2, c, tx)

\* the log t2 is the log t1 with the outcome res of record r noted: the tx_id
\* is known, the entry of (client, tx_id) is the one it had or else res, and
\* every other entry is as it was
LogNoted(t1, t2, r, res) ==
    /\ t2.tx_ids = t1.tx_ids \cup {r.tx_id}
    /\ Logged(t2, r.client_id, r.tx_id) =
          IF Logged(t1, r.client_id, r.tx_id).some
          THEN Logged(t1, r.client_id, r.tx_id)
          ELSE Some(TransactionContainer(r.transaction_type, res))
    /\ \A c \in Clients, tx \in TxIds :
          <<c, tx>> # <<r.client_id, r.tx_id>> => Logged(t2, c, tx) = Logged(t1, c, tx)

(* -------------------------------- claims ------------------------------- *)

\* C1 as stated: whenever handle_transaction returns an error, the whole
\* State (accounts, transaction log with its tx_ids, disputes) is as before.
C1_ErrorLeavesStateIdentical ==
    [][\A r \in Records :
          (~Returned(r).ok /\ State' = After(r)) => State' = State]_vars

\* C1 amended: whenever handle_transaction returns an error, the accounts and
\* every dispute status are as before the call; the transaction log is as
\* before too when the record is a Dispute, Resolve, Chargeback or improper
\* record; for a rejected Deposit or Withdrawal the log has the tx_id among
\* its known tx_ids, holds the failure under (client, tx_id) unless that
\* client already had an entry for the tx_id, and is otherwise as before.
C1_ErrorLeavesAccountsAndDisputes ==
    \A r \in Records :
        ~Returned(r).ok =>
            /\ After(r).accounts = accounts
            /\ SameStatus(After(r).disputes, disputes)
            /\ r \notin MoneyRecords => SameLog(After(r).transactions, transactions)
            /\ r \in MoneyRecords =>
                  LogNoted(transactions, After(r).transactions, r, Returned(r))

\* a rejected duplicate of an accepted deposit, sent by the same client, has
\* left the accepted entry in the log
C1_Witness ==
    \E r \in MoneyRecords :
        /\ LoggedOk(transactions, r.client_id, r.tx_id)
        /\ ~Returned(r).ok
        /\ After(r).transactions.tx_ids = transactions.tx_ids
        /\ \E c \in Clients, tx \in TxIds : LoggedErr(transactions, c, tx)

\* C2: whenever handle_transaction returns an error, no account is created,
\* every existing account keeps its available, held and locked, and no
\* (client, tx_id) changes dispute status.
C2_ErrorLeavesAccounts ==
    \A r \in Records :
        ~Returned(r).ok =>
            /\ DOMAIN After(r).accounts = DOMAIN accounts
            /\ \A c \in DOMAIN accounts : After(r).accounts[c] = accounts[c]
            /\ SameStatus(After(r).disputes, disputes)

\* a withdrawal of an unknown client was rejected: its failure is logged and
\* the client has no account
C2_Witness ==
    \E c \in Clients, tx \in TxIds :
        /\ LoggedErr(transactions, c, tx)
        /\ Logged(transactions, c, tx).val.kind = "Withdrawal"
        /\ Logged(transactions, c, tx).val.result.err.error = "InsufficientFunds"
        /\ ~Present(accounts, c)

\* C3: a Deposit or Withdrawal whose tx_id an accepted Deposit or Withdrawal
\* of any client already used is rejected with DuplicateTxId and changes no
\* balance.
C3_DuplicateOfAcceptedRejected ==
    \A r \in MoneyRecords :
        (\E c \in Clients : LoggedOk(transactions, c, r.tx_id)) =>
            /\ Returned(r) = Err(DuplicateTxId(r.tx_id))
            /\ After(r).accounts = accounts

\* an accepted transaction of one client, and the rejected duplicate another
\* client sent with the same tx_id
C3_Witness ==
    \E c1 \in Clients, c2 \in Clients, tx \in TxIds :
        /\ c1 # c2
        /\ LoggedOk(transactions, c1, tx)
        /\ LoggedErr(transactions, c2, tx)
        /\ Logged(transactions, c2, tx).val.result = Err(DuplicateTxId(tx))

C10_LockedRejects ==
    \A r \in MoneyRecords :
        (~tx_exists(transactions, r.tx_id) /\ Amt(r) > 0 /\ Locked(accounts, r.client_id)) =>
            Returned(r) = Err(AccountLocked(r.client_id, r.tx_id))

\* a locked account and the deposit it refused, logged as AccountLocked
C10_Witness ==
    \E c \in Clients, tx \in TxIds :
        /\ Locked(accounts, c)
        /\ Logged(transactions, c, tx) =
              Some(TransactionContainer("Deposit", Err(AccountLocked(c, tx))))

\* the Dispute, Resolve and Chargeback records
DisputeFlowRecords == DisputeRecords \cup ResolveRecords \cup ChargebackRecords

\* C11: in every step an account that is locked stays locked, and an account
\* becomes locked only in a step that is an accepted Chargeback of its own
\* client.
C11_LockedOnlyByChargeback ==
    [][\A c \in Clients :
          /\ Locked(accounts, c) => Locked(accounts', c)
          /\ (~Locked(accounts, c) /\ Locked(accounts', c)) =>
                \E r \in ChargebackRecords :
                    /\ r.client_id = c
                    /\ Returned(r).ok
                    /\ State' = After(r)]_vars

\* a locked account whose client still has an undisputed deposit: the Dispute
\* of it is accepted and leaves the account locked
C11_Witness ==
    \E r \in DisputeRecords :
        /\ Locked(accounts, r.client_id)
        /\ Returned(r).ok
        /\ Locked(After(r).accounts, r.client_id)

\* C12: for every actively-disputed (client, tx_id) the Resolve and the
\* Chargeback of that client for that tx_id are accepted, whether or not the
\* account is locked; no Dispute, Resolve or Chargeback returns AccountLocked.
C12_DisputesBypassLock ==
    /\ \A c \in Clients, tx \in TxIds :
          Status(disputes, c, tx) = "actively-disputed" =>
              /\ Returned(TransactionRecord("Resolve", c, tx, None)) = Ok
              /\ Returned(TransactionRecord("Chargeback", c, tx, None)) = Ok
    /\ \A r \in DisputeFlowRecords :
          ~Returned(r).ok => Returned(r).err.error # "AccountLocked"

\* a locked account with an open dispute, which its client can both resolve
\* and charge back
C12_Witness ==
    \E c \in Clients, tx \in TxIds :
        /\ Locked(accounts, c)
        /\ Status(disputes, c, tx) = "actively-disputed"
        /\ Returned(TransactionRecord("Resolve", c, tx, None)).ok
        /\ Returned(TransactionRecord("Chargeback", c, tx, None)).ok

\* C13: in every step a (client, tx_id) keeps its dispute status, or moves
\* from undisputed to actively-disputed in an accepted Dispute of that pair,
\* or from actively-disputed to settled in an accepted Resolve or Chargeback
\* of that pair; nothing leaves settled and nothing goes from undisputed to
\* settled.
C13_StatusMoves ==
    [][\A c \in Clients, tx \in TxIds :
          LET s == Status(disputes, c, tx)
              t == Status(disputes', c, tx)
          IN  s # t =>
                  \/ /\ s = "undisputed"
                     /\ t = "actively-disputed"
                     /\ \E r \in DisputeRecords :
                           /\ r.client_id = c /\ r.tx_id = tx
                           /\ Returned(r).ok
                           /\ State' = After(r)
                  \/ /\ s = "actively-disputed"
                     /\ t = "settled"
                     /\ \E r \in ResolveRecords \cup ChargebackRecords :
                           /\ r.client_id = c /\ r.tx_id = tx
                           /\ Returned(r).ok
                           /\ State' = After(r)]_vars

\* a settled pair next to an actively-disputed pair of the same client: every
\* Dispute, Resolve and Chargeback of the settled pair is rejected and leaves
\* it settled
C13_Witness ==
    \E c \in Clients, t1 \in TxIds, t2 \in TxIds :
        /\ Status(disputes, c, t1) = "settled"
        /\ Status(disputes, c, t2) = "actively-disputed"
        /\ \A r \in DisputeFlowRecords :
              (r.client_id = c /\ r.tx_id = t1) =>
                  /\ ~Returned(r).ok
                  /\ Status(After(r).disputes, c, t1) = "settled"

\* C14: a Dispute of a settled (client, tx_id) is rejected with
\* DisputeAlreadySettled and changes nothing, whether a Resolve or a
\* Chargeback settled the pair.
C14_SettledNotDisputedAgain ==
    \A r \in DisputeRecords :
        Status(disputes, r.client_id, r.tx_id) = "settled" =>
            /\ Returned(r) = Err(DisputeAlreadySettled(r.client_id, r.tx_id))
            /\ After(r) = State

\* one pair settled by a Resolve (its account was never locked) and one
\* settled by a Chargeback (the only settled pair of a locked account), and
\* the Dispute of each is rejected
C14_Witness ==
    \E c1 \in Clients, c2 \in Clients, t1 \in TxIds, t2 \in TxIds :
        /\ Status(disputes, c1, t1) = "settled"
        /\ ~Locked(accounts, c1)
        /\ Status(disputes, c2, t2) = "settled"
        /\ Locked(accounts, c2)
        /\ disputes.settled[c2] = {t2}
        /\ ~Returned(TransactionRecord("Dispute", c1, t1, None)).ok
        /\ ~Returned(TransactionRecord("Dispute", c2, t2, None)).ok

\* C15: a Dispute of an actively-disputed (client, tx_id) is rejected with
\* TxAlreadyDisputed and moves nothing into held: the accounts and the dispute
\* statuses are as before.
C15_ActiveNotDisputedAgain ==
    \A r \in DisputeRecords :
        Status(disputes, r.client_id, r.tx_id) = "actively-disputed" =>
            /\ Returned(r) = Err(TxAlreadyDisputed(r.client_id, r.tx_id))
            /\ After(r).accounts = accounts
            /\ SameStatus(After(r).disputes, disputes)

\* a deposit under dispute whose amount is held once, and the second Dispute
\* of it is rejected
C15_Witness ==
    \E r \in DisputeRecords :
        /\ Status(disputes, r.client_id, r.tx_id) = "actively-disputed"
        /\ accounts[r.client_id].held =
              Logged(transactions, r.client_id, r.tx_id).val.result.val.amount
        /\ accounts[r.client_id].held > 0
        /\ ~Returned(r).ok

\* C16 as stated: a Resolve or Chargeback of the owning client that refers to
\* a logged transaction which is not actively-disputed (never disputed, or
\* settled) is rejected with TxNotDisputed.
C16_NotDisputedRejected ==
    \A r \in ResolveRecords \cup ChargebackRecords :
        (/\ Logged(transactions, r.client_id, r.tx_id).some
         /\ Status(disputes, r.client_id, r.tx_id) # "actively-disputed") =>
            Returned(r) = Err(TxNotDisputed(r.client_id, r.tx_id))

\* C17: a Dispute, Resolve or Chargeback whose tx_id no client has in the log
\* is rejected with TxDoesNotExist carrying the client and the tx_id of the
\* event, and changes nothing.
C17_UnknownTxRejected ==
    \A r \in DisputeFlowRecords :
        (\A c \in Clients : ~Logged(transactions, c, r.tx_id).some) =>
            /\ Returned(r) = Err(TxDoesNotExist(r.client_id, r.tx_id))
            /\ After(r) = State

\* a client with an account and a logged deposit, and a tx_id nobody has
\* used: the Dispute, the Resolve and the Chargeback of it are all rejected
C17_Witness ==
    \E c \in Clients, t1 \in TxIds, t2 \in TxIds :
        /\ LoggedOk(transactions, c, t1)
        /\ ~tx_exists(transactions, t2)
        /\ \A r \in DisputeFlowRecords :
              (r.client_id = c /\ r.tx_id = t2) =>
                  Returned(r) = Err(TxDoesNotExist(c, t2))

\* C18: a Dispute that refers to a logged Withdrawal of the same client is
\* rejected with InvalidDispute carrying tx_type Withdrawal and changes
\* nothing; every actively-disputed (client, tx_id) is a Deposit logged as a
\* success.
C18_WithdrawalNotDisputable ==
    /\ \A r \in DisputeRecords :
          (/\ Logged(transactions, r.client_id, r.tx_id).some
           /\ Logged(transactions, r.client_id, r.tx_id).val.kind = "Withdrawal") =>
              /\ Returned(r) = Err(InvalidDispute(r.tx_id, "Withdrawal"))
              /\ After(r) = State
    /\ \A c \in Clients, tx \in TxIds :
          Status(disputes, c, tx) = "actively-disputed" =>
              /\ LoggedOk(transactions, c, tx)
              /\ Logged(transactions, c, tx).val.kind = "Deposit"

\* an accepted withdrawal in the log, whose Dispute is rejected as invalid
C18_Witness ==
    \E r \in DisputeRecords :
        /\ LoggedOk(transactions, r.client_id, r.tx_id)
        /\ Logged(transactions, r.client_id, r.tx_id).val.kind = "Withdrawal"
        /\ Returned(r) = Err(InvalidDispute(r.tx_id, "Withdrawal"))

\* C19: a Dispute that refers to a Deposit logged as a failure is rejected
\* with DisputedTxFailed and changes nothing.
C19_FailedDepositNotDisputable ==
    \A r \in DisputeRecords :
        (/\ LoggedErr(transactions, r.client_id, r.tx_id)
         /\ Logged(transactions, r.client_id, r.tx_id).val.kind = "Deposit") =>
            /\ Returned(r) = Err(DisputedTxFailed(r.tx_id))
            /\ After(r) = State

\* a client with money in its account and a deposit that was refused for its
\* amount: the Dispute of the refused deposit is rejected
C19_Witness ==
    \E r \in DisputeRecords :
        /\ Present(accounts, r.client_id)
        /\ accounts[r.client_id].available > 0
        /\ LoggedErr(transactions, r.client_id, r.tx_id)
        /\ Logged(transactions, r.client_id, r.tx_id).val.kind = "Deposit"
        /\ Logged(transactions, r.client_id, r.tx_id).val.result.err.error
              = "AmountNotPositive"
        /\ Returned(r) = Err(DisputedTxFailed(r.tx_id))

\* C20 as stated, for a transaction the owning client had accepted: a
\* Dispute, Resolve or Chargeback whose tx_id is logged as a success for
\* another client than the client of the event is rejected with
\* ClientMismatch, and the account of the owning client is unchanged.
C20_OtherClientMismatch ==
    \A r \in DisputeFlowRecords :
        \A c \in Clients :
            (c # r.client_id /\ LoggedOk(transactions, c, r.tx_id)) =>
                /\ Returned(r) = Err(ClientMismatch(r.tx_id, c, r.client_id))
                /\ After(r).accounts[c] = accounts[c]

\* C21: a record whose kind and amount presence do not match is rejected
\* with ImproperTransaction carrying the record and leaves the State as it
\* was: no account is created, the tx_id stays unknown if it was, and every
\* Deposit handled next gets the result it would have got without it.
C21_ImproperRejected ==
    \A r \in ImproperRecords :
        /\ Returned(r) = Err(ImproperTransaction(r))
        /\ After(r) = State
        /\ DOMAIN After(r).accounts = DOMAIN accounts
        /\ tx_exists(After(r).transactions, r.tx_id) = tx_exists(transactions, r.tx_id)
        /\ \A d \in DepositRecords :
              (/\ d.tx_id = r.tx_id
               /\ ~tx_exists(transactions, d.tx_id)
               /\ Amt(d) > 0
               /\ ~Locked(accounts, d.client_id)) =>
                  handle_transaction(d, After(r)).result = Ok

\* an engine that has accounts and a log, a fresh tx_id, a Deposit without an
\* amount and a Dispute with one under that tx_id, and the valid Deposit with
\* the same tx_id that is accepted after either
C21_Witness ==
    \E c \in Clients, tx \in TxIds, a \in RawAmounts :
        /\ Present(accounts, c)
        /\ transactions.tx_ids # {}
        /\ ~tx_exists(transactions, tx)
        /\ ~Returned(TransactionRecord("Deposit", c, tx, None)).ok
        /\ ~Returned(TransactionRecord("Dispute", c, tx, Some(a))).ok
        /\ handle_transaction(TransactionRecord("Deposit", c, tx, Some(a)),
                              After(TransactionRecord("Deposit", c, tx, None))).result = Ok

\* C22 as stated, for the Withdrawal: the first Withdrawal attempt of a
\* client without an account leaves that client with an account.
C22_CreatedAtFirstAttempt ==
    [][\A r \in WithdrawalRecords :
          (State' = After(r) /\ ~Present(accounts, r.client_id)) =>
              Present(accounts', r.client_id)]_vars

\* C22 amended: an account comes into existence only in a step that is an
\* accepted Deposit of its client, created zeroed and credited with that
\* deposit (available = amount, held = 0, unlocked); every accepted Deposit of
\* a client without an account creates it; a Withdrawal attempt or a rejected
\* Deposit of a client without an account creates none; an account that
\* exists is never removed.
C22_CreatedAtFirstAcceptedDeposit ==
    \A r \in Records, c \in Clients :
        /\ Present(accounts, c) => Present(After(r).accounts, c)
        /\ (~Present(accounts, c) /\ Present(After(r).accounts, c)) =>
              /\ r \in DepositRecords
              /\ r.client_id = c
              /\ Returned(r).ok
              /\ After(r).accounts[c] =
                    [available |-> Amt(r), held |-> 0, locked |-> FALSE]
        /\ (r \in DepositRecords /\ r.client_id = c /\ Returned(r).ok) =>
              Present(After(r).accounts, c)
        /\ (/\ ~Present(accounts, c)
            /\ r.client_id = c
            /\ (r \in WithdrawalRecords \/ ~Returned(r).ok)) =>
              ~Present(After(r).accounts, c)

\* one client has an account from its deposit; another has a rejected
\* withdrawal and a rejected deposit in the log and still no account
C22_Witness ==
    \E c1 \in Clients, c2 \in Clients, t1 \in TxIds, t2 \in TxIds :
        /\ Present(accounts, c1)
        /\ ~Present(accounts, c2)
        /\ LoggedErr(transactions, c2, t1)
        /\ Logged(transactions, c2, t1).val.kind = "Withdrawal"
        /\ LoggedErr(transactions, c2, t2)
        /\ Logged(transactions, c2, t2).val.kind = "Deposit"

\* C23: a Deposit or Withdrawal with a fresh tx_id whose rounded amount is
\* zero or negative is rejected with AmountNotPositive carrying the tx_id and
\* the rounded amount, whether the client has an account or not, and changes
\* no account.
C23_AmountNotPositive ==
    \A r \in MoneyRecords :
        (~tx_exists(transactions, r.tx_id) /\ Amt(r) <= 0) =>
            /\ Returned(r) = Err(AmountNotPositive(r.tx_id, Amt(r)))
            /\ After(r).accounts = accounts

\* a client with money and a client without an account, and a fresh tx_id:
\* the withdrawal of zero of the first and the negative deposit of the second
\* are both rejected
C23_Witness ==
    \E c1 \in Clients, c2 \in Clients, tx \in TxIds :
        /\ Present(accounts, c1) /\ accounts[c1].available > 0
        /\ ~Present(accounts, c2)
        /\ ~tx_exists(transactions, tx)
        /\ \E r \in WithdrawalRecords :
              /\ r.client_id = c1 /\ r.tx_id = tx /\ Amt(r) = 0
              /\ Returned(r) = Err(AmountNotPositive(tx, 0))
        /\ \E r \in DepositRecords :
              /\ r.client_id = c2 /\ r.tx_id = tx /\ Amt(r) < 0
              /\ Returned(r) = Err(AmountNotPositive(tx, Amt(r)))

\* what decides a Deposit or Withdrawal with a fresh tx_id: the amount and the
\* client's account, never the tx_id
Acceptable(r) ==
    /\ Amt(r) > 0
    /\ ~Locked(accounts, r.client_id)
    /\ r \in WithdrawalRecords => Amt(r) <= AccountOf(accounts, r.client_id).available

\* C24: a Deposit or Withdrawal with a fresh tx_id is accepted exactly when
\* its amount and the client's account allow it, whether the tx_id is smaller
\* or larger than the tx_ids seen before; and the same record under any other
\* fresh tx_id gets the same verdict.
C24_TxIdOrderIrrelevant ==
    \A r \in MoneyRecords :
        ~tx_exists(transactions, r.tx_id) =>
            /\ Returned(r).ok <=> Acceptable(r)
            /\ \A tx \in TxIds :
                  ~tx_exists(transactions, tx) =>
                      Returned([r EXCEPT !.tx_id = tx]).ok = Returned(r).ok

\* a larger tx_id is in the log and a Deposit with a smaller, fresh tx_id is
\* accepted
C24_Witness ==
    \E r \in DepositRecords :
        /\ ~tx_exists(transactions, r.tx_id)
        /\ \E seen \in transactions.tx_ids : seen > r.tx_id
        /\ Returned(r).ok

\* C25 as stated: every account's available is >= 0 in every reachable state.
C25_AvailableNonNegative ==
    \A c \in DOMAIN accounts : accounts[c].available >= 0

\* C25 amended: an account's available is negative only if its client has a
\* deposit that is or was disputed, and only an accepted Dispute of that
\* client takes available below zero or further below zero; no Deposit,
\* Withdrawal, Resolve, Chargeback or rejected record does.
C25_NegativeOnlyByDispute ==
    /\ \A c \in DOMAIN accounts :
          accounts[c].available < 0 =>
              \E tx \in TxIds : Status(disputes, c, tx) # "undisputed"
    /\ \A r \in Records :
          \A c \in DOMAIN After(r).accounts :
              (/\ After(r).accounts[c].available < 0
               /\ After(r).accounts[c].available < AccountOf(accounts, c).available) =>
                  /\ r \in DisputeRecords
                  /\ r.client_id = c
                  /\ Returned(r).ok

\* an account whose deposit was withdrawn and then disputed: available is
\* negative
C25_Witness ==
    \E c \in Clients, tx \in TxIds :
        /\ Present(accounts, c)
        /\ accounts[c].available < 0
        /\ Status(disputes, c, tx) = "actively-disputed"

\* the amount a rounding half up to 4 fractional digits would give
HalfUp(a) == (a + 5) \div 10

\* C30 as stated: the amount that handle_transaction validates and stores for
\* a Deposit or Withdrawal is the input amount rounded half up.
C30_RoundsHalfUp ==
    \A r \in MoneyRecords :
        ~tx_exists(transactions, r.tx_id) =>
            /\ HalfUp(r.amount.val) <= 0 =>
                  Returned(r) = Err(AmountNotPositive(r.tx_id, HalfUp(r.amount.val)))
            /\ Returned(r).ok =>
                  Logged(After(r).transactions, r.client_id, r.tx_id).val.result.val.amount
                      = HalfUp(r.amount.val)

\* C30 amended: round_currency gives the multiple of 0.0001 nearest to the
\* amount, a tie going away from zero (half up for amounts >= 0, half down
\* for negative ones), and handle_transaction hands only the rounded amount
\* to the handlers: it is the amount that is checked for positivity and
\* carried by AmountNotPositive, compared with available, and stored.
C30_RoundsHalfAwayFromZero ==
    \A r \in MoneyRecords :
        LET a == r.amount.val
            q == Amt(r)
            diff == IF 10 * q >= a THEN 10 * q - a ELSE a - 10 * q
        IN  /\ diff <= 5
            /\ diff = 5 => IF a >= 0 THEN 10 * q > a ELSE 10 * q < a
            /\ a >= 0 => q = HalfUp(a)
            /\ handle_transaction(r, State)
                  = handle_transaction([r EXCEPT !.amount = Some(10 * q)], State)
            /\ ~tx_exists(transactions, r.tx_id) =>
                  /\ q <= 0 => Returned(r) = Err(AmountNotPositive(r.tx_id, q))
                  /\ (q > 0 /\ ~Locked(accounts, r.client_id) /\ r \in WithdrawalRecords) =>
                        (Returned(r).ok <=> q <= AccountOf(accounts, r.client_id).available)
                  /\ Returned(r).ok =>
                        Logged(After(r).transactions, r.client_id, r.tx_id)
                            = Some(TransactionContainer(r.transaction_type,
                                       OkVal([client_id |-> r.client_id,
                                              tx_id |-> r.tx_id, amount |-> q])))

\* an account holding 0.0001: the withdrawal of 0.00005 is rounded to 0.0001
\* and empties it, the withdrawal of 0.00004 is rounded to 0 and refused, and
\* the deposit of -0.00005 is refused as -0.0001
C30_Witness ==
    \E c \in Clients, tx \in TxIds :
        /\ Present(accounts, c) /\ accounts[c].available = 1 /\ ~accounts[c].locked
        /\ ~tx_exists(transactions, tx)
        /\ Returned(TransactionRecord("Withdrawal", c, tx, Some(5))).ok
        /\ After(TransactionRecord("Withdrawal", c, tx, Some(5))).accounts[c].available = 0
        /\ Returned(TransactionRecord("Withdrawal", c, tx, Some(4)))
              = Err(AmountNotPositive(tx, 0))
        /\ Returned(TransactionRecord("Deposit", c, tx, Some(-5)))
              = Err(AmountNotPositive(tx, -1))

\* the variants of TransactionError the handlers construct (ClientMismatch and
\* DisputeAlreadySettled under the names validate.rs uses)
ErrorKinds ==
    {"InsufficientFunds", "AccountLocked", "DuplicateTxId", "AmountNotPositive",
     "TxAlreadyDisputed", "TxDoesNotExist", "InvalidDispute", "TxNotDisputed",
     "DisputedTxFailed", "DisputeAlreadySettled", "ClientMismatch",
     "ImproperTransaction", "UnexpectedError"}

\* whether the i-th input record is rejected when the records before it have
\* been handled in order
RejectedAt(i) ==
    ~handle_transaction(records[i],
                        run_test_scenario(NewState, SubSeq(records, 1, i - 1)).state).result.ok

\* C26: for every input, run_test_scenario handles every record: at each
\* point the State is the one the records taken so far leave when handled in
\* order, each of them got one result (the errors collected are those of the
\* rejected ones, in order, each of the taxonomy), a record that remains can
\* be taken whatever was rejected before, and eventually none remains.
C26_EveryRecordHandled ==
    /\ [](LET sofar == run_test_scenario(NewState, SubSeq(records, 1, handled))
          IN  /\ handled <= Len(records)
              /\ State = sofar.state
              /\ actual_errors = sofar.actual_errors
              /\ Len(actual_errors) = Cardinality({i \in 1..handled : RejectedAt(i)})
              /\ \A i \in 1..Len(actual_errors) : actual_errors[i].error \in ErrorKinds
              /\ handled < Len(records) => ENABLED ScenarioStep)
    /\ <>(handled = Len(records))

\* an input of three records is finished: the first was rejected, the two
\* after it were accepted against the state it left, the second of them a
\* Dispute
C26_Witness ==
    /\ Len(records) >= 3
    /\ handled = Len(records)
    /\ RejectedAt(1)
    /\ ~RejectedAt(2)
    /\ ~RejectedAt(3)
    /\ records[3].transaction_type = "Dispute"
    /\ Len(actual_errors) = 1

\* C27 as stated: when process_transactions has written the balances, the
\* State, and the balances written, are those that handle_transaction leaves
\* when applied to the input records one at a time in arrival order.
C27_PipelineEqualsSequential ==
    output.some =>
        /\ State = run_test_scenario(NewState, records).state
        /\ output.val = run_test_scenario(NewState, records).state.accounts

\* the input records of one client, in input order
RecordsOf(c) == SelectSeq(records, LAMBDA r : r.client_id = c)

\* C28 as stated: every record waiting in the channel of a handler thread
\* belongs to a client of that thread (client_id mod number of threads), and
\* when the balances are written every client's account is the one that the
\* client's records, applied in their input order, leave.
C28_PerClientOrder ==
    /\ \A w \in Threads :
          \A i \in 1..Len(channels[w]) :
              channels[w][i].client_id % NumThreads = w
    /\ output.some =>
          \A c \in Clients :
              AccountOf(accounts, c) =
                  AccountOf(run_test_scenario(NewState, RecordsOf(c)).state.accounts, c)

\* C29 as stated: when the balances are written, no tx_id is logged as a
\* success for two clients, and every Deposit or Withdrawal that came after
\* another client's Deposit or Withdrawal with the same tx_id is logged for
\* its client as rejected with DuplicateTxId.
C29_OneApplicationPerTxId ==
    output.some =>
        /\ \A tx \in TxIds :
              Cardinality({c \in Clients : LoggedOk(transactions, c, tx)}) <= 1
        /\ \A j \in 1..Len(records) :
              (/\ records[j] \in MoneyRecords
               /\ \E i \in 1..(j - 1) :
                     /\ records[i] \in MoneyRecords
                     /\ records[i].tx_id = records[j].tx_id
               /\ \A i \in 1..(j - 1) :
                     (records[i] \in MoneyRecords /\ records[i].tx_id = records[j].tx_id)
                         => records[i].client_id # records[j].client_id) =>
                  Logged(transactions, records[j].client_id, records[j].tx_id) =
                      Some(TransactionContainer(records[j].transaction_type,
                                                Err(DuplicateTxId(records[j].tx_id))))

\* C32 as stated: no record, in any reachable state, makes handle_transaction
\* return UnexpectedError.
C32_NeverUnexpectedError ==
    \A r \in Records :
        ~Returned(r).ok => Returned(r).err.error # "UnexpectedError"

\* C33 as stated: the insert that handle_deposit / handle_withdrawal make for
\* a record whose tx_id the log already knows leaves the log as it was, its
\* tx_ids and the entry of every client, so that no tx_id has an entry under
\* two clients.
C33_InsertOfKnownTxIdNoOp ==
    \A r \in MoneyRecords :
        tx_exists(transactions, r.tx_id) =>
            LET after == insert(transactions, r.client_id, r.tx_id,
                                TransactionContainer(r.transaction_type, Returned(r)))
            IN  /\ SameLog(transactions, after)
                /\ Cardinality({c \in Clients : Logged(after, c, r.tx_id).some}) <= 1

\* the amount of a deposit logged as a success
DepositAmount(txs, c, tx) == Logged(txs, c, tx).val.result.val.amount

\* the sum of the amounts of the deposits of client c with a tx_id in S
RECURSIVE SumDeposits(_, _, _)
SumDeposits(txs, c, S) ==
    IF S = {} THEN 0
    ELSE LET tx == CHOOSE x \in S : TRUE
         IN  DepositAmount(txs, c, tx) + SumDeposits(txs, c, S \ {tx})

\* the tx_ids client c has under active dispute
ActiveDisputes(disp, c) == {tx \in TxIds : is_disputed(disp, c, tx)}

C38_DisputeStatusesConsistent ==
    \A c \in Clients, tx \in TxIds :
        /\ ~(is_disputed(disputes, c, tx) /\ is_settled(disputes, c, tx))
        /\ (is_disputed(disputes, c, tx) \/ is_settled(disputes, c, tx)) =>
              /\ LoggedOk(transactions, c, tx)
              /\ Logged(transactions, c, tx).val.kind = "Deposit"
              /\ Logged(transactions, c, tx).val.result.val.client_id = c

\* one deposit of a client is settled and another is under active dispute,
\* and a Dispute of the settled one is turned down
C38_Witness ==
    \E c \in Clients, tx, tx2 \in TxIds :
        /\ is_settled(disputes, c, tx)
        /\ is_disputed(disputes, c, tx2)
        /\ ~Returned(TransactionRecord("Dispute", c, tx, None)).ok

\* C39: handling a record of client c leaves the account (its presence and
\* its fields), the dispute statuses and the log entries of every other
\* client as they were, and of client c's log entries changes at most the
\* one of the record's tx_id.
C39_OtherClientsUntouched ==
    \A r \in Records :
        /\ \A c \in Clients \ {r.client_id} :
              /\ Present(After(r).accounts, c) <=> Present(accounts, c)
              /\ AccountOf(After(r).accounts, c) = AccountOf(accounts, c)
              /\ \A tx \in TxIds :
                    /\ Status(After(r).disputes, c, tx) = Status(disputes, c, tx)
                    /\ Logged(After(r).transactions, c, tx) = Logged(transactions, c, tx)
        /\ \A tx \in TxIds \ {r.tx_id} :
              Logged(After(r).transactions, r.client_id, tx) =
                  Logged(transactions, r.client_id, tx)

\* two clients hold deposits with money held for one of them, and a Dispute
\* of the other client is accepted and changes that client's account
C39_Witness ==
    \E r \in DisputeRecords, c \in Clients :
        /\ c # r.client_id
        /\ Present(accounts, c)
        /\ accounts[c].held > 0
        /\ Returned(r).ok
        /\ After(r).accounts[r.client_id] # accounts[r.client_id]

\* what the i-th input record adds to available + held of client c: the
\* amount of an accepted Deposit of c, minus the amount of an accepted
\* Withdrawal of c, minus the amount of the deposit an accepted Chargeback of
\* c refers to, and nothing otherwise
Flow(c, i) ==
    LET r == records[i]
    IN  IF r.client_id # c \/ RejectedAt(i) THEN 0
        ELSE CASE r.transaction_type = "Deposit" -> Amt(r)
               [] r.transaction_type = "Withdrawal" -> 0 - Amt(r)
               [] r.transaction_type = "Chargeback" ->
                      0 - DepositAmount(transactions, c, r.tx_id)
               [] OTHER -> 0

\* the sum of Flow(c, i) over the first n input records
RECURSIVE NetFlow(_, _)
NetFlow(c, n) == IF n = 0 THEN 0 ELSE NetFlow(c, n - 1) + Flow(c, n)

\* the total that OutputRecord::new reports for an account
Total(account) == account.available + account.held

C40_NextNeverPanics ==
    /\ generator.pc # "panicked"
    /\ generator.num_tx.some => Len(records) <= generator.num_tx.val
    /\ generator.attempts <= generator.max_attempts

\* C34 as stated: when the balances are written no record is left in the
\* channel of a handler thread, every Deposit or Withdrawal of the input has
\* been handled (its tx_id is known to the log), and the balances written
\* are the accounts of the State.
C34_OutputAfterAllApplied ==
    output.some =>
        /\ \A w \in Threads : channels[w] = <<>>
        /\ \A i \in 1..Len(records) :
              (records[i].transaction_type \in {"Deposit", "Withdrawal"}
                  /\ records[i].amount.some) =>
                  tx_exists(transactions, records[i].tx_id)
        /\ output.val = accounts

\* C35: for every input, batch size and schedule, whether or not the headers
\* can be read, process_transactions returns: the main thread gets past
\* every channel, writes the balances and joins the reader, which has
\* returned; and the channels never hold more than their buffers.
C35_ProcessTransactionsTerminates ==
    /\ [](/\ Len(headers_chan) <= HeadersCap
          /\ Len(records_chan) <= max_batches
          /\ \A w \in Threads : Len(channels[w]) <= ChannelCap)
    /\ <>(main_thread.pc = "done" /\ reader.pc = "returned" /\ output.some)

\* the main thread waits at a full channel of a handler thread that has not
\* returned, with a batch waiting in the channel of batches behind it
C35_Witness ==
    /\ main_thread.pc = "send"
    /\ \E w \in Threads \ exited :
          /\ Len(channels[w]) = ChannelCap
          /\ assign_tx_to_thread(Head(main_thread.tx_batch), NumThreads) = w
    /\ Len(records_chan) = max_batches
    /\ ~ENABLED MainThread

=============================================================================
